---- MODULE Spec2Model ----
(***************************************************************************)
(* Model of the Cesium worker createCoplanarPolygonOutlineGeometry.js:     *)
(* the descriptor CoplanarPolygonOutlineGeometry (constructor,             *)
(* fromPositions, pack, unpack, createGeometry), the line-list builder     *)
(* createGeometryFromPositions and the worker entry point.                 *)
(*                                                                         *)
(* JavaScript objects live in two heaps indexed by identity: hiers holds   *)
(* the polygon-hierarchy objects, objs the descriptor objects.  An object  *)
(* is a function from its field names to its field values, so the set of   *)
(* fields of an object is the DOMAIN of its value.  Zero-based JavaScript  *)
(* arrays are functions on 0..n-1 (the pack buffer) or sequences read      *)
(* through At (typed arrays).                                              *)
(*                                                                         *)
(* The library routines the file imports (arrayRemoveDuplicates,           *)
(* validOutline, polygonOutlinesFromHierarchy, combineInstances,           *)
(* BoundingSphere.fromPoints, pack/unpackPolygonHierarchy,                 *)
(* computeHierarchyPackedLength, Check.defined, defaultValue) are not part *)
(* of the file; they are modelled from the written specification.          *)
(***************************************************************************)
EXTENDS Integers, Sequences, FiniteSets, TLC

VARIABLES hiers, objs, array, scratchOptions, last

vars == <<hiers, objs, array, scratchOptions, last>>

(***************************************************************************)
(* Bounds of the model.                                                    *)
(***************************************************************************)
\* Longest outer ring drawn as an input of the geometry pipeline.
MaxRing == 4
\* Largest number of rings (outer ring plus holes at any depth) of a
\* hierarchy drawn as an input of pack and unpack.
MaxNodes == 3
\* Largest starting index handed to pack, unpack and the worker.
MaxOff == 1
\* Largest number of hierarchy objects allocated (the scratch one included).
MaxHiers == 3

(***************************************************************************)
(* JavaScript values.                                                      *)
(***************************************************************************)
Undefined == [t |-> "undefined"]
Null == [t |-> "null"]
EmptyObject == [f \in {} |-> Undefined]
Ref(id) == [t |-> "ref", id |-> id]

\* when.defined: neither undefined nor null.
defined(v) == v # Undefined /\ v # Null

\* when.defaultValue(a, b)
defaultValue(a, b) == IF defined(a) THEN a ELSE b

\* Reading a field of an object: undefined when the field is absent.
Get(o, f) == IF f \in DOMAIN o THEN o[f] ELSE Undefined

\* obj[f] = v on an object: adds the field when it is absent.
Put(o, f, v) == [g \in DOMAIN o \cup {f} |-> IF g = f THEN v ELSE o[g]]

\* delete obj[f]
Delete(o, f) == [g \in DOMAIN o \ {f} |-> o[g]]

\* Zero-based read of a typed array kept as a sequence.
At(buf, i) == buf[i + 1]

Abs(n) == IF n < 0 THEN -n ELSE n

RECURSIVE Concat(_)
Concat(ss) == IF ss = <<>> THEN <<>> ELSE Head(ss) \o Concat(Tail(ss))

RECURSIVE SumSeq(_)
SumSeq(ns) == IF ns = <<>> THEN 0 ELSE Head(ns) + SumSeq(Tail(ns))

(***************************************************************************)
(* Points and hierarchies.  A point is <<x, y, z>>.  A hierarchy value is  *)
(* an object with the optional fields positions (a sequence of points)     *)
(* and holes (a sequence of hierarchies).                                  *)
(***************************************************************************)
Points ==
    { <<0, 0, 0>>, <<2, 0, 0>>, <<1, 2, 0>>, <<1, 0, 0>>, <<0, 2, 2>>, <<1, 2, 1>> }

Positions(h) == IF "positions" \in DOMAIN h THEN h.positions ELSE <<>>
Holes(h) == IF "holes" \in DOMAIN h THEN h.holes ELSE <<>>

\* Ring structure and coordinates of a hierarchy, whatever fields carry them.
RECURSIVE RingTree(_)
RingTree(h) ==
    [positions |-> Positions(h),
     holes |-> [i \in 1..Len(Holes(h)) |-> RingTree(Holes(h)[i])]]

(***************************************************************************)
(* Cartesian3.equalsEpsilon with the duplicate-removal epsilon, on the     *)
(* integer grid: the grid step stands for the epsilon.                     *)
(***************************************************************************)
Epsilon == 1

equalsEpsilon(p, q) == \A c \in 1..3 : Abs(p[c] - q[c]) <= Epsilon

(***************************************************************************)
(* arrayRemoveDuplicates(values, equalsEpsilon, wrapAround): one pass that *)
(* drops every value equal to the last value kept, then, for a ring, drops *)
(* the last value kept when it equals the first.                           *)
(***************************************************************************)
RECURSIVE RemoveAdjacent(_, _)
RemoveAdjacent(kept, rest) ==
    IF rest = <<>> THEN kept
    ELSE IF equalsEpsilon(kept[Len(kept)], Head(rest))
         THEN RemoveAdjacent(kept, Tail(rest))
         ELSE RemoveAdjacent(Append(kept, Head(rest)), Tail(rest))

arrayRemoveDuplicates(values, wrapAround) ==
    IF Len(values) < 2 THEN values
    ELSE LET cleaned == RemoveAdjacent(<<Head(values)>>, Tail(values))
         IN  IF wrapAround /\ Len(cleaned) > 1
                /\ equalsEpsilon(cleaned[1], cleaned[Len(cleaned)])
             THEN SubSeq(cleaned, 1, Len(cleaned) - 1)
             ELSE cleaned

(***************************************************************************)
(* CoplanarPolygonGeometryLibrary.validOutline: the points are coplanar    *)
(* and not all on one line.                                                *)
(***************************************************************************)
Sub(p, q) == <<p[1] - q[1], p[2] - q[2], p[3] - q[3]>>
Cross(u, v) ==
    <<u[2] * v[3] - u[3] * v[2], u[3] * v[1] - u[1] * v[3], u[1] * v[2] - u[2] * v[1]>>
Dot(u, v) == u[1] * v[1] + u[2] * v[2] + u[3] * v[3]

Collinear(ps) ==
    \A i, j \in 1..Len(ps) : Cross(Sub(ps[i], ps[1]), Sub(ps[j], ps[1])) = <<0, 0, 0>>

Coplanar(ps) ==
    \A i, j, k \in 1..Len(ps) :
        Dot(Sub(ps[i], ps[1]), Cross(Sub(ps[j], ps[1]), Sub(ps[k], ps[1]))) = 0

validOutline(ps) == Coplanar(ps) /\ ~Collinear(ps)

(***************************************************************************)
(* PolygonGeometryLibrary.polygonOutlinesFromHierarchy(h, false): the      *)
(* outline rings of the hierarchy, outer ring first, each with its         *)
(* duplicates removed; a ring of fewer than 3 points is skipped together   *)
(* with what it encloses.                                                  *)
(***************************************************************************)
RECURSIVE polygonOutlinesFromHierarchy(_)
polygonOutlinesFromHierarchy(h) ==
    LET ring == arrayRemoveDuplicates(Positions(h), TRUE)
    IN  IF Len(ring) < 3 THEN <<>>
        ELSE <<ring>> \o
             Concat([i \in 1..Len(Holes(h)) |-> polygonOutlinesFromHierarchy(Holes(h)[i])])

(***************************************************************************)
(* BoundingSphere.fromPoints: the sphere centred on the middle of the      *)
(* axis-aligned extent of the points that reaches the farthest point.      *)
(* Kept in integers: center2 is twice the centre, radius2Sq the square of  *)
(* twice the radius.                                                       *)
(***************************************************************************)
MinOf(S) == CHOOSE m \in S : \A n \in S : m <= n
MaxOf(S) == CHOOSE m \in S : \A n \in S : m >= n

BoundingSphereFromPoints(ps) ==
    IF ps = <<>> THEN [center2 |-> <<0, 0, 0>>, radius2Sq |-> 0]
    ELSE LET lo(c) == MinOf({ps[i][c] : i \in 1..Len(ps)})
             hi(c) == MaxOf({ps[i][c] : i \in 1..Len(ps)})
             c2 == <<lo(1) + hi(1), lo(2) + hi(2), lo(3) + hi(3)>>
             d(i) == Sub(<<2 * ps[i][1], 2 * ps[i][2], 2 * ps[i][3]>>, c2)
         IN  [center2 |-> c2,
              radius2Sq |-> MaxOf({Dot(d(i), d(i)) : i \in 1..Len(ps)})]

(***************************************************************************)
(* createGeometryFromPositions: the closed line list of one ring.          *)
(***************************************************************************)
Zeros(n) == [k \in 1..n |-> 0]

\* The loop's turn with the closing edge left out: the second index of each
\* pair is i + 1, not (i + 1) % length.
BuilderStepNoWrap(positions, st) ==
    LET position == positions[st.i + 1]
        f1 == [st.flatPositions EXCEPT ![st.positionIndex + 1] = position[1]]
        f2 == [f1 EXCEPT ![st.positionIndex + 2] = position[2]]
        f3 == [f2 EXCEPT ![st.positionIndex + 3] = position[3]]
        i1 == [st.indices EXCEPT ![st.index + 1] = st.i]
        i2 == [i1 EXCEPT ![st.index + 2] = st.i + 1]
    IN  [i |-> st.i + 1, flatPositions |-> f3, positionIndex |-> st.positionIndex + 3,
         indices |-> i2, index |-> st.index + 2]

\* One turn of the loop of lines 87-95; st holds the loop's variables.
BuilderStep(positions, st) ==
    LET length == Len(positions)
        position == positions[st.i + 1]
        f1 == [st.flatPositions EXCEPT ![st.positionIndex + 1] = position[1]]
        f2 == [f1 EXCEPT ![st.positionIndex + 2] = position[2]]
        f3 == [f2 EXCEPT ![st.positionIndex + 3] = position[3]]
        i1 == [st.indices EXCEPT ![st.index + 1] = st.i]
        i2 == [i1 EXCEPT ![st.index + 2] = (st.i + 1) % length]
    IN  [i |-> st.i + 1, flatPositions |-> f3, positionIndex |-> st.positionIndex + 3,
         indices |-> i2, index |-> st.index + 2]

RECURSIVE BuilderLoop(_, _)
BuilderLoop(positions, st) ==
    IF st.i < Len(positions) THEN BuilderLoop(positions, BuilderStep(positions, st)) ELSE st

createGeometryFromPositions(positions) ==
    LET length == Len(positions)
        st == BuilderLoop(positions,
                  [i |-> 0, flatPositions |-> Zeros(length * 3), positionIndex |-> 0,
                   indices |-> Zeros(length * 2), index |-> 0])
    IN  [attributes |-> [position |-> [componentDatatype |-> "DOUBLE",
                                       componentsPerAttribute |-> 3,
                                       values |-> st.flatPositions]],
         indices |-> st.indices,
         primitiveType |-> "LINES"]

(***************************************************************************)
(* GeometryPipeline.combineInstances on line lists: the buffers            *)
(* concatenated, each ring's indices offset by the vertices before it.     *)
(***************************************************************************)
VertexCount(g) == Len(g.attributes.position.values) \div 3

RECURSIVE CombineFrom(_, _)
CombineFrom(geoms, offset) ==
    IF geoms = <<>> THEN [values |-> <<>>, indices |-> <<>>]
    ELSE LET g == Head(geoms)
             rest == CombineFrom(Tail(geoms), offset + VertexCount(g))
         IN  [values |-> g.attributes.position.values \o rest.values,
              indices |-> [k \in 1..Len(g.indices) |-> g.indices[k] + offset] \o rest.indices]

combineInstances(geoms) ==
    LET c == CombineFrom(geoms, 0)
    IN  [attributes |-> [position |-> [componentDatatype |-> "DOUBLE",
                                       componentsPerAttribute |-> 3,
                                       values |-> c.values]],
         indices |-> c.indices,
         primitiveType |-> Head(geoms).primitiveType]

(***************************************************************************)
(* CoplanarPolygonOutlineGeometry.createGeometry on a hierarchy value.     *)
(* The result records, beside what the function returns, the library       *)
(* routines it ran, in order.                                              *)
(***************************************************************************)
NoGeometry(calls) == [returned |-> "undefined", calls |-> calls]

\* The length test off by one: a ring of two points passes.
TooFewPositionsLoose(outerPositions) == Len(outerPositions) < 2

\* Line 241: the deduplicated outer ring is too short for a polygon.
TooFewPositions(outerPositions) == Len(outerPositions) < 3

\* The validity test ignored.
RejectsOutlineNever(isValid) == FALSE

\* Line 245: the outline is rejected when validOutline says it is not valid.
RejectsOutline(isValid) == ~isValid

\* The bounding sphere computed from the deduplicated ring.
BoundingSpherePointsDeduplicated(polygonHierarchy, outerPositions) == outerPositions

\* Line 265: the points the bounding sphere is computed from.
BoundingSpherePoints(polygonHierarchy, outerPositions) == Positions(polygonHierarchy)

createGeometry(polygonHierarchy) ==
    LET outerPositions == arrayRemoveDuplicates(Positions(polygonHierarchy), TRUE)
        c1 == <<"arrayRemoveDuplicates">>
    IN  IF TooFewPositions(outerPositions) THEN NoGeometry(c1)
        ELSE LET isValid == validOutline(outerPositions)
                 c2 == Append(c1, "validOutline")
             IN  IF RejectsOutline(isValid) THEN NoGeometry(c2)
                 ELSE LET polygons == polygonOutlinesFromHierarchy(polygonHierarchy)
                          c3 == Append(c2, "polygonOutlinesFromHierarchy")
                      IN  IF Len(polygons) = 0 THEN NoGeometry(c3)
                          ELSE LET geometries ==
                                       [i \in 1..Len(polygons) |->
                                           createGeometryFromPositions(polygons[i])]
                                   geometry == combineInstances(geometries)
                                   boundingSphere ==
                                       BoundingSphereFromPoints(
                                           BoundingSpherePoints(polygonHierarchy, outerPositions))
                               IN  [returned |-> "geometry",
                                    attributes |-> geometry.attributes,
                                    indices |-> geometry.indices,
                                    primitiveType |-> geometry.primitiveType,
                                    boundingSphere |-> boundingSphere,
                                    calls |-> c3 \o <<"combineInstances", "fromPoints">>]

(***************************************************************************)
(* PolygonGeometryLibrary.computeHierarchyPackedLength: per ring, its      *)
(* point count, three numbers per point and its hole count.                *)
(***************************************************************************)
RECURSIVE computeHierarchyPackedLength(_)
computeHierarchyPackedLength(h) ==
    2 + 3 * Len(Positions(h))
      + SumSeq([i \in 1..Len(Holes(h)) |-> computeHierarchyPackedLength(Holes(h)[i])])

(***************************************************************************)
(* The wire format of a hierarchy: outer-ring point count, the ring's      *)
(* coordinates, hole count, then each hole in the same format.             *)
(***************************************************************************)
FlattenPoints(ps) == Concat([i \in 1..Len(ps) |-> ps[i]])

RECURSIVE HierarchyEncoding(_)
HierarchyEncoding(h) ==
    <<Len(Positions(h))>> \o FlattenPoints(Positions(h)) \o <<Len(Holes(h))>>
      \o Concat([i \in 1..Len(Holes(h)) |-> HierarchyEncoding(Holes(h)[i])])

\* PolygonGeometryLibrary.packPolygonHierarchy(h, array, startingIndex):
\* writes the encoding from startingIndex and returns the index after it.
packPolygonHierarchy(h, arr, startingIndex) ==
    LET enc == HierarchyEncoding(h)
    IN  [array |-> [k \in DOMAIN arr |->
                       IF k >= startingIndex /\ k < startingIndex + Len(enc)
                       THEN enc[k - startingIndex + 1] ELSE arr[k]],
         startingIndex |-> startingIndex + Len(enc)]

\* PolygonGeometryLibrary.unpackPolygonHierarchy(array, startingIndex): a new
\* hierarchy object read from startingIndex; its startingIndex field is the
\* index after what was read.
RECURSIVE unpackPolygonHierarchy(_, _)
RECURSIVE UnpackHoles(_, _, _)
unpackPolygonHierarchy(arr, startingIndex) ==
    LET positionsLength == arr[startingIndex]
        positions == [i \in 1..positionsLength |->
                         <<arr[startingIndex + 3 * i - 2], arr[startingIndex + 3 * i - 1],
                           arr[startingIndex + 3 * i]>>]
        holesAt == startingIndex + 1 + 3 * positionsLength
        hs == UnpackHoles(arr, holesAt + 1, arr[holesAt])
    IN  [positions |-> positions, holes |-> hs.holes, startingIndex |-> hs.startingIndex]

UnpackHoles(arr, startingIndex, n) ==
    IF n = 0 THEN [holes |-> <<>>, startingIndex |-> startingIndex]
    ELSE LET hole == unpackPolygonHierarchy(arr, startingIndex)
             rest == UnpackHoles(arr, hole.startingIndex, n - 1)
         IN  [holes |-> <<[positions |-> hole.positions, holes |-> hole.holes]>> \o rest.holes,
              startingIndex |-> rest.startingIndex]

\* The index after the hierarchy packed at s, or -1 when the numbers at s are
\* not a packed hierarchy that lies within the buffer.
RECURSIVE PackedEnd(_, _)
RECURSIVE PackedHolesEnd(_, _, _)
PackedEnd(arr, s) ==
    IF s \notin DOMAIN arr \/ arr[s] < 0 THEN -1
    ELSE LET holesAt == s + 1 + 3 * arr[s]
         IN  IF holesAt \notin DOMAIN arr \/ arr[holesAt] < 0 THEN -1
             ELSE PackedHolesEnd(arr, holesAt + 1, arr[holesAt])

PackedHolesEnd(arr, s, n) ==
    IF n = 0 THEN s
    ELSE LET e == PackedEnd(arr, s)
         IN  IF e < 0 THEN -1 ELSE PackedHolesEnd(arr, e, n - 1)

Num(n) == [t |-> "number", n |-> n]
ArrayOf(items) == [t |-> "array", items |-> items]

WorkerName == "createCoplanarPolygonOutlineGeometry"

\* The constructor with Check.defined after the first assignment.
CoplanarPolygonOutlineGeometryLateCheck(options, heap) ==
    LET opts == defaultValue(options, EmptyObject)
        polygonHierarchy == Get(opts, "polygonHierarchy")
        this1 == Put(EmptyObject, "_polygonHierarchy", polygonHierarchy)
    IN  IF ~defined(polygonHierarchy) THEN [threw |-> TRUE, this |-> this1]
        ELSE LET this2 == Put(this1, "_workerName", WorkerName)
                 this3 == Put(this2, "packedLength",
                              computeHierarchyPackedLength(heap[polygonHierarchy.id]) + 1)
             IN  [threw |-> FALSE, this |-> this3]

(***************************************************************************)
(* The constructor.  The result tells whether Check.defined threw and      *)
(* holds the object under construction with the fields assigned so far.    *)
(***************************************************************************)
CoplanarPolygonOutlineGeometry(options, heap) ==
    LET opts == defaultValue(options, EmptyObject)
        polygonHierarchy == Get(opts, "polygonHierarchy")
    IN  IF ~defined(polygonHierarchy) THEN [threw |-> TRUE, this |-> EmptyObject]
        ELSE LET this1 == Put(EmptyObject, "_polygonHierarchy", polygonHierarchy)
                 this2 == Put(this1, "_workerName", WorkerName)
                 this3 == Put(this2, "packedLength",
                              computeHierarchyPackedLength(heap[polygonHierarchy.id]) + 1)
             IN  [threw |-> FALSE, this |-> this3]

\* CoplanarPolygonOutlineGeometry.fromPositions: the hierarchy object it
\* wraps the positions in is allocated at the end of the heap.
fromPositions(options, heap) ==
    LET opts == defaultValue(options, EmptyObject)
        positions == Get(opts, "positions")
    IN  IF ~defined(positions) THEN [threw |-> TRUE, this |-> EmptyObject, heap |-> heap]
        ELSE LET heap1 == Append(heap, [positions |-> positions.items])
                 newOptions == [polygonHierarchy |-> Ref(Len(heap1))]
                 r == CoplanarPolygonOutlineGeometry(newOptions, heap1)
             IN  [threw |-> r.threw, this |-> r.this, heap |-> heap1]

(***************************************************************************)
(* pack and unpack.                                                        *)
(***************************************************************************)
HierarchyOf(d, heap) == heap[d["_polygonHierarchy"].id]

\* pack without startingIndex advanced past the hierarchy: the length is
\* written where the hierarchy starts.
packAtOriginalIndex(value, arr, startingIndex, heap) ==
    LET s0 == defaultValue(startingIndex, Num(0)).n
        p == packPolygonHierarchy(HierarchyOf(value, heap), arr, s0)
    IN  [p.array EXCEPT ![s0] = value.packedLength]

pack(value, arr, startingIndex, heap) ==
    LET s0 == defaultValue(startingIndex, Num(0)).n
        p == packPolygonHierarchy(HierarchyOf(value, heap), arr, s0)
    IN  [p.array EXCEPT ![p.startingIndex] = value.packedLength]

\* unpack without startingIndex advanced past the hierarchy: the length is
\* read where the hierarchy starts.
unpackAtOriginalIndex(arr, startingIndex, result, hs, os, scratch) ==
    LET s0 == defaultValue(startingIndex, Num(0)).n
        read == unpackPolygonHierarchy(arr, s0)
        polygonHierarchy == Delete(read, "startingIndex")
        packedLength == arr[s0]
        hs1 == Append(hs, polygonHierarchy)
        fresh == CoplanarPolygonOutlineGeometry(scratch, hs).this
        os1 == IF defined(result) THEN os ELSE Append(os, fresh)
        ret == IF defined(result) THEN result.id ELSE Len(os1)
        r1 == Put(os1[ret], "_polygonHierarchy", Ref(Len(hs1)))
        r2 == Put(r1, "packedLength", packedLength)
    IN  [hiers |-> hs1, objs |-> [os1 EXCEPT ![ret] = r2], scratchOptions |-> scratch,
         ret |-> ret]

\* unpack without the delete of the hierarchy's startingIndex.
unpackLeavesStartingIndex(arr, startingIndex, result, hs, os, scratch) ==
    LET s0 == defaultValue(startingIndex, Num(0)).n
        read == unpackPolygonHierarchy(arr, s0)
        s1 == read.startingIndex
        packedLength == arr[s1]
        hs1 == Append(hs, read)
        fresh == CoplanarPolygonOutlineGeometry(scratch, hs).this
        os1 == IF defined(result) THEN os ELSE Append(os, fresh)
        ret == IF defined(result) THEN result.id ELSE Len(os1)
        r1 == Put(os1[ret], "_polygonHierarchy", Ref(Len(hs1)))
        r2 == Put(r1, "packedLength", packedLength)
    IN  [hiers |-> hs1, objs |-> [os1 EXCEPT ![ret] = r2], scratchOptions |-> scratch,
         ret |-> ret]

\* unpack(array, startingIndex, result) on the heaps hs (hierarchies) and os
\* (descriptors) with the module's scratchOptions: the heaps and scratch
\* object after the call, and the descriptor returned.
unpack(arr, startingIndex, result, hs, os, scratch) ==
    LET s0 == defaultValue(startingIndex, Num(0)).n
        read == unpackPolygonHierarchy(arr, s0)
        s1 == read.startingIndex
        polygonHierarchy == Delete(read, "startingIndex")
        packedLength == arr[s1]
        hs1 == Append(hs, polygonHierarchy)
        fresh == CoplanarPolygonOutlineGeometry(scratch, hs).this
        os1 == IF defined(result) THEN os ELSE Append(os, fresh)
        ret == IF defined(result) THEN result.id ELSE Len(os1)
        r1 == Put(os1[ret], "_polygonHierarchy", Ref(Len(hs1)))
        r2 == Put(r1, "packedLength", packedLength)
    IN  [hiers |-> hs1, objs |-> [os1 EXCEPT ![ret] = r2], scratchOptions |-> scratch,
         ret |-> ret]

\* Matrix2.Ellipsoid.clone: undefined for an undefined ellipsoid.
EllipsoidClone(e) == IF defined(e) THEN e ELSE Undefined

\* The worker entry point on a descriptor (no offset): the descriptor after
\* the call and the value returned.
createCoplanarPolygonOutlineGeometry(polygonGeometry, heap) ==
    LET pg == Put(polygonGeometry, "_ellipsoid", EllipsoidClone(Get(polygonGeometry, "_ellipsoid")))
    IN  [polygonGeometry |-> pg, ret |-> createGeometry(HierarchyOf(pg, heap))]

(***************************************************************************)
(* Inputs.                                                                 *)
(***************************************************************************)
Triangle == << <<0, 0, 0>>, <<2, 0, 0>>, <<1, 2, 0>> >>
HoleRing == << <<1, 2, 0>>, <<0, 0, 0>>, <<2, 0, 0>> >>
Leaf(ring) == [positions |-> ring, holes |-> <<>>]

\* Hierarchies handed to the constructor in Spec.
InputHierarchies ==
    { Leaf(<< <<0, 0, 0>>, <<2, 0, 0>> >>),
      [positions |-> Append(Triangle, <<1, 2, 1>>), holes |-> <<Leaf(HoleRing)>>] }

\* Position lists handed to fromPositions in Spec.
InputRings == { Triangle }

\* Rings of at most n points.
RingsUpTo(n) == UNION { [1..k -> Points] : k \in 0..n }

\* Hole lists of the hierarchies drawn for the geometry pipeline.
GeomHoles ==
    { <<>>,
      <<Leaf(<< <<1, 0, 0>>, <<1, 2, 1>> >>),
        [positions |-> Append(HoleRing, <<2, 0, 0>>), holes |-> <<Leaf(Triangle)>>]>> }

GeomInputs == { [positions |-> r, holes |-> hs] : r \in RingsUpTo(MaxRing), hs \in GeomHoles }

\* Rings of the hierarchies drawn for pack and unpack.
PackRings == { << <<1, 2, 1>> >>, << <<0, 0, 0>>, <<2, 0, 0>> >> }

\* Hierarchies of exactly n rings, and hole lists of m rings in all.
RECURSIVE TreesOf(_)
RECURSIVE ForestsOf(_)
TreesOf(n) == { [positions |-> r, holes |-> hs] : r \in PackRings, hs \in ForestsOf(n - 1) }

ForestsOf(m) ==
    IF m = 0 THEN { <<>> }
    ELSE UNION { { <<t>> \o f : t \in TreesOf(k), f \in ForestsOf(m - k) } : k \in 1..m }

PackInputs == UNION { TreesOf(n) : n \in 1..MaxNodes }

\* The caller's buffer holds the longest descriptor at the largest offset.
ArrLen ==
    MaxOff + 1
      + MaxOf({ computeHierarchyPackedLength(h) : h \in PackInputs \cup InputHierarchies })

\* A buffer no call has written to: every cell holds a value of its own that
\* no packed descriptor contains.
FreshArray == [k \in 0..(ArrLen - 1) |-> -(k + 1)]

\* Starting indexes handed to pack, unpack and the worker: none, the start of
\* the buffer and the largest offset.
Offsets == { 0, MaxOff }
StartingIndexes == { Undefined } \cup { Num(s) : s \in Offsets }

(***************************************************************************)
(* Initial states.                                                         *)
(***************************************************************************)
ScratchOptions == [polygonHierarchy |-> Ref(1)]

\* The module as loaded: the scratch options and their empty hierarchy.
Init ==
    /\ hiers = <<EmptyObject>>
    /\ objs = <<>>
    /\ array = FreshArray
    /\ scratchOptions = ScratchOptions
    /\ last = [op |-> "load"]

\* The state after new CoplanarPolygonOutlineGeometry({polygonHierarchy: h}).
Constructed(h) ==
    /\ hiers = <<EmptyObject, h>>
    /\ objs = <<CoplanarPolygonOutlineGeometry([polygonHierarchy |-> Ref(2)], hiers).this>>
    /\ array = FreshArray
    /\ scratchOptions = ScratchOptions
    /\ last = [op |-> "new", options |-> [polygonHierarchy |-> Ref(2)], threw |-> FALSE,
               fieldsSet |-> DOMAIN objs[1], ret |-> 1]

InitPack == \E h \in PackInputs : Constructed(h)

InitGeom == \E h \in GeomInputs : Constructed(h)

(***************************************************************************)
(* Actions: one per call of the module's interface.                        *)
(***************************************************************************)
\* The outcome of the constructor call r made on options with the hierarchy
\* heap hs: an error, or a new descriptor at the end of objs.
Constructs(name, options, r, hs) ==
    IF r.threw
    THEN /\ last' = [op |-> name, options |-> options, threw |-> TRUE,
                     fieldsSet |-> DOMAIN r.this, ret |-> 0]
         /\ UNCHANGED <<hiers, objs, array, scratchOptions>>
    ELSE /\ Len(hs) <= MaxHiers
         /\ hiers' = hs
         /\ objs' = Append(objs, r.this)
         /\ last' = [op |-> name, options |-> options, threw |-> FALSE,
                     fieldsSet |-> DOMAIN r.this, ret |-> Len(objs) + 1]
         /\ UNCHANGED <<array, scratchOptions>>

\* new CoplanarPolygonOutlineGeometry(options): without a hierarchy, or with a
\* hierarchy object the caller has just built.
Construct ==
    \/ \E options \in { Undefined, Null, EmptyObject, [polygonHierarchy |-> Undefined],
                        [polygonHierarchy |-> Null] } :
           Constructs("new", options, CoplanarPolygonOutlineGeometry(options, hiers), hiers)
    \/ \E h \in InputHierarchies :
           LET hs == Append(hiers, h)
               options == [polygonHierarchy |-> Ref(Len(hs))]
           IN  Constructs("new", options, CoplanarPolygonOutlineGeometry(options, hs), hs)

\* CoplanarPolygonOutlineGeometry.fromPositions(options)
FromPositions ==
    \E options \in { Undefined, EmptyObject } \cup { [positions |-> ArrayOf(r)] : r \in InputRings } :
        LET r == fromPositions(options, hiers)
        IN  Constructs("fromPositions", options, r, r.heap)

\* CoplanarPolygonOutlineGeometry.pack(objs[d], array, startingIndex)
Pack ==
    \E d \in 1..Len(objs), startingIndex \in StartingIndexes :
        /\ defaultValue(startingIndex, Num(0)).n
               + computeHierarchyPackedLength(HierarchyOf(objs[d], hiers)) < ArrLen
        /\ array' = pack(objs[d], array, startingIndex, hiers)
        /\ last' = [op |-> "pack", value |-> d, startingIndex |-> startingIndex,
                    ret |-> "array"]
        /\ UNCHANGED <<hiers, objs, scratchOptions>>

\* CoplanarPolygonOutlineGeometry.unpack(array, startingIndex, result)
Unpack ==
    \E startingIndex \in StartingIndexes,
       result \in { Undefined } \cup { Ref(d) : d \in 1..Len(objs) } :
        LET s0 == defaultValue(startingIndex, Num(0)).n
            end == PackedEnd(array, s0)
            u == unpack(array, startingIndex, result, hiers, objs, scratchOptions)
        IN  /\ end >= 0 /\ end \in DOMAIN array
            /\ Len(hiers) < MaxHiers
            /\ hiers' = u.hiers
            /\ objs' = u.objs
            /\ scratchOptions' = u.scratchOptions
            /\ last' = [op |-> "unpack", startingIndex |-> startingIndex, result |-> result,
                        ret |-> u.ret]
            /\ UNCHANGED array

\* CoplanarPolygonOutlineGeometry.createGeometry(objs[d])
CreateGeometry ==
    \E d \in 1..Len(objs) :
        /\ last' = [op |-> "createGeometry", arg |-> d,
                    ret |-> createGeometry(HierarchyOf(objs[d], hiers))]
        /\ UNCHANGED <<hiers, objs, array, scratchOptions>>

\* The worker entry point: on a descriptor, or on the buffer with an offset.
\* The descriptor it unpacks from the buffer is not reachable after the call.
Worker ==
    \/ \E d \in 1..Len(objs) :
           LET w == createCoplanarPolygonOutlineGeometry(objs[d], hiers)
           IN  /\ objs' = [objs EXCEPT ![d] = w.polygonGeometry]
               /\ last' = [op |-> "worker", arg |-> Ref(d), offset |-> Undefined, ret |-> w.ret]
               /\ UNCHANGED <<hiers, array, scratchOptions>>
    \/ \E s \in Offsets :
           LET end == PackedEnd(array, s)
               u == unpack(array, Num(s), Undefined, hiers, objs, scratchOptions)
               w == createCoplanarPolygonOutlineGeometry(u.objs[u.ret], u.hiers)
           IN  /\ end >= 0 /\ end \in DOMAIN array
               /\ scratchOptions' = u.scratchOptions
               /\ last' = [op |-> "worker", arg |-> Undefined, offset |-> Num(s), ret |-> w.ret]
               /\ UNCHANGED <<hiers, objs, array>>

\* createGeometryFromPositions on the ring of a hierarchy object.
BuildRing ==
    \E h \in 2..Len(hiers) :
        /\ last' = [op |-> "createGeometryFromPositions", positions |-> Positions(hiers[h]),
                    ret |-> createGeometryFromPositions(Positions(hiers[h]))]
        /\ UNCHANGED <<hiers, objs, array, scratchOptions>>

\* The duplicate removal createGeometry applies to the outer ring.
RemoveDuplicates ==
    \E d \in 1..Len(objs) :
        LET outerPositions == Positions(HierarchyOf(objs[d], hiers))
        IN  /\ last' = [op |-> "arrayRemoveDuplicates", values |-> outerPositions,
                        ret |-> arrayRemoveDuplicates(outerPositions, TRUE)]
            /\ UNCHANGED <<hiers, objs, array, scratchOptions>>

Next ==
    \/ Construct
    \/ FromPositions
    \/ Pack
    \/ Unpack
    \/ CreateGeometry
    \/ Worker
    \/ BuildRing
    \/ RemoveDuplicates

NextDescriptor == Construct \/ FromPositions \/ Pack \/ Unpack

NextPack == Pack \/ Unpack

NextGeom == CreateGeometry \/ BuildRing \/ RemoveDuplicates

\* The module in use: descriptors built, packed, unpacked and tessellated.
Spec == Init /\ [][Next]_vars

\* The calls that make or fill descriptors.
SpecDescriptor == Init /\ [][NextDescriptor]_vars

\* pack and unpack on a descriptor of every bounded hierarchy.
SpecPack == InitPack /\ [][NextPack]_vars

\* The geometry pipeline on a descriptor of every bounded outer ring.
SpecGeom == InitGeom /\ [][NextGeom]_vars

(***************************************************************************)
(* Properties.                                                             *)
(***************************************************************************)
\* The hierarchy the descriptor of the last createGeometry call refers to.
LastHierarchy == HierarchyOf(objs[last.arg], hiers)

\* The starting index a call recorded in l used.
StartOf(l) == defaultValue(l.startingIndex, Num(0)).n

\* Vertices of the rings before ring j of a list of rings.
RingBase(rings, j) == SumSeq([k \in 1..(j - 1) |-> Len(rings[k])])

\* C1: for a ring of N >= 3 points the builder's index buffer has length 2N
\* with indices[2i] = i and indices[2i+1] = (i+1) mod N, the last edge closing
\* back to vertex 0, and its position buffer has length 3N with x, y, z of
\* point i at offsets 3i, 3i+1, 3i+2.
C1_ClosedLineList ==
    (last.op = "createGeometryFromPositions" /\ Len(last.positions) >= 3) =>
        LET N == Len(last.positions)
            indices == last.ret.indices
            values == last.ret.attributes.position.values
        IN  /\ Len(indices) = 2 * N
            /\ \A i \in 0..(N - 1) :
                   At(indices, 2 * i) = i /\ At(indices, 2 * i + 1) = (i + 1) % N
            /\ Len(values) = 3 * N
            /\ \A i \in 0..(N - 1) : \A c \in 0..2 :
                   At(values, 3 * i + c) = last.positions[i + 1][c + 1]

\* A ring of four points was built into [0,1,1,2,2,3,3,0].
C1_Witness ==
    /\ last.op = "createGeometryFromPositions"
    /\ Len(last.positions) = 4
    /\ last.ret.indices = <<0, 1, 1, 2, 2, 3, 3, 0>>

\* C2: unpack right after pack at the same starting index returns a
\* descriptor whose hierarchy has the ring structure and coordinates of the
\* packed descriptor's hierarchy, and the same packedLength.
C2_RoundTrip ==
    [][ (/\ last.op = "pack"
         /\ last'.op = "unpack"
         /\ hiers' # hiers
         /\ StartOf(last') = StartOf(last))
        => LET x == objs[last.value]
               r == objs'[last'.ret]
           IN  /\ RingTree(HierarchyOf(r, hiers')) = RingTree(HierarchyOf(x, hiers))
               /\ r.packedLength = x.packedLength ]_vars

\* A hierarchy with two holes came back from the buffer at the largest offset
\* into a new descriptor.
C2_Witness ==
    /\ last.op = "unpack"
    /\ last.startingIndex = Num(MaxOff)
    /\ last.result = Undefined
    /\ Len(Holes(HierarchyOf(objs[last.ret], hiers))) = 2
    /\ RingTree(HierarchyOf(objs[last.ret], hiers)) = RingTree(hiers[2])
    /\ objs[last.ret].packedLength = objs[1].packedLength

\* C3: when fewer than 3 points of the outer ring are left after the
\* duplicate removal, createGeometry returns undefined having run nothing but
\* the duplicate removal.
C3_TooFewPoints ==
    last.op = "createGeometry" =>
        (Len(arrayRemoveDuplicates(Positions(LastHierarchy), TRUE)) < 3
            => last.ret = [returned |-> "undefined", calls |-> <<"arrayRemoveDuplicates">>])

\* A ring of four points that the duplicate removal cut to two.
C3_Witness ==
    /\ last.op = "createGeometry"
    /\ Len(Positions(LastHierarchy)) = 4
    /\ Len(arrayRemoveDuplicates(Positions(LastHierarchy), TRUE)) = 2
    /\ last.ret.returned = "undefined"

NoHierarchy(options) ==
    \/ ~defined(options)
    \/ "polygonHierarchy" \notin DOMAIN options
    \/ ~defined(options.polygonHierarchy)

C6_PackFrame ==
    [][ last'.op = "pack"
        => \E v \in {objs[last'.value]}, s \in {StartOf(last')} :
           \E L \in {v.packedLength}, enc \in {HierarchyEncoding(HierarchyOf(v, hiers))} :
               L = Len(enc) + 1 /\ L = computeHierarchyPackedLength(HierarchyOf(v, hiers)) + 1
               => /\ DOMAIN array' = DOMAIN array
                  /\ \A k \in DOMAIN array :
                         IF k < s \/ k > s + L - 1 THEN array'[k] = array[k]
                         ELSE IF k = s + L - 1 THEN array'[k] = L
                         ELSE array'[k] = enc[k - s + 1]
                  /\ last'.ret = "array" ]_vars

\* A descriptor was packed at the largest offset, with untouched cells on
\* both sides.
C6_Witness ==
    /\ last.op = "pack"
    /\ last.startingIndex = Num(MaxOff)
    /\ array[MaxOff + objs[last.value].packedLength - 1] = objs[last.value].packedLength
    /\ array[0] = FreshArray[0]
    /\ MaxOff + objs[last.value].packedLength < ArrLen
    /\ array[ArrLen - 1] = FreshArray[ArrLen - 1]

\* C7: the bounding sphere of a returned geometry is the one of the
\* descriptor's original outer ring and encloses each of its points; the
\* position buffer is the outline rings' coordinates in order, the index
\* buffer their closed line lists offset by the vertices before each ring,
\* and the primitive type is LINES.
C7_SphereAndBuffers ==
    (last.op = "createGeometry" /\ last.ret.returned = "geometry") =>
        LET original == Positions(LastHierarchy)
            rings == polygonOutlinesFromHierarchy(LastHierarchy)
            bs == last.ret.boundingSphere
            twice(p) == <<2 * p[1], 2 * p[2], 2 * p[3]>>
        IN  /\ bs = BoundingSphereFromPoints(original)
            /\ \A i \in 1..Len(original) :
                   Dot(Sub(twice(original[i]), bs.center2), Sub(twice(original[i]), bs.center2))
                       <= bs.radius2Sq
            /\ last.ret.attributes.position.values
                   = Concat([j \in 1..Len(rings) |-> FlattenPoints(rings[j])])
            /\ Len(last.ret.indices) = 2 * RingBase(rings, Len(rings) + 1)
            /\ \A j \in 1..Len(rings) : \A i \in 0..(Len(rings[j]) - 1) :
                   LET base == RingBase(rings, j)
                   IN  /\ At(last.ret.indices, 2 * (base + i)) = base + i
                       /\ At(last.ret.indices, 2 * (base + i) + 1)
                              = base + ((i + 1) % Len(rings[j]))
            /\ last.ret.primitiveType = "LINES"

\* A geometry of several rings whose outer ring lost a point to the duplicate
\* removal, the sphere of the ring that was left being another one.
C7_Witness ==
    /\ last.op = "createGeometry"
    /\ last.ret.returned = "geometry"
    /\ Len(polygonOutlinesFromHierarchy(LastHierarchy)) >= 2
    /\ Len(arrayRemoveDuplicates(Positions(LastHierarchy), TRUE)) < Len(Positions(LastHierarchy))
    /\ BoundingSphereFromPoints(arrayRemoveDuplicates(Positions(LastHierarchy), TRUE))
           # last.ret.boundingSphere

\* C8: the worker returns createGeometry of the descriptor it was given, or of
\* the descriptor unpacked at the offset, and leaves the fields of a
\* descriptor it was given as they were.
C8_WorkerPure ==
    [][ last'.op = "worker"
        => IF defined(last'.offset)
           THEN /\ objs' = objs
                /\ last'.ret = createGeometry(
                       Delete(unpackPolygonHierarchy(array, last'.offset.n), "startingIndex"))
           ELSE LET d == last'.arg.id
                IN  /\ last'.ret = createGeometry(HierarchyOf(objs[d], hiers))
                    /\ objs'[d] = objs[d] ]_vars

====
